---------------------------- MODULE Spec2Model ----------------------------
(***************************************************************************)
(* A model of sc2reader/objects.py: the Team, Attribute, Entity, Player,   *)
(* User, Observer, Computer, Participant and Graph classes.                *)
(*                                                                         *)
(* Python values whose type varies at run time are tagged records          *)
(* (None, PyStr, PyInt, PyList).  A str is a sequence of one-character     *)
(* strings, so that split, strip, reversal, formatting and comparison are  *)
(* computed character by character as the interpreter computes them.       *)
(* A call that raises yields Raise(e); a call that returns yields          *)
(* Return(v).                                                              *)
(***************************************************************************)
EXTENDS Integers, Sequences, FiniteSets, TLC

VARIABLES
    slot_data,      \* Entity.__init__ argument: the replay.initData slot record
    init_data,      \* User.__init__ argument: the replay.initData user record
    detail_data,    \* Player.__init__ argument: the replay.details record
    attribute_data, \* Player.__init__ argument: the player's attribute dict
    person,         \* outcome of the Observer/Computer/Participant constructor
    attr_args,      \* Attribute.__init__ arguments header, attr_id, player, value
    attribute,      \* outcome of the Attribute constructor
    teams,          \* two Team objects
    hashes,         \* values Team.hash returned since the team's last append
    graph_args,     \* Graph.__init__ arguments x, y, xy_list
    graph,          \* outcome of Graph(x, y, xy_list)
    split_graph,    \* outcome of Graph(times, values) on the pre-split pairs
    points          \* outcomes of the as_points() calls on each graph

vars == <<slot_data, init_data, detail_data, attribute_data, person,
          attr_args, attribute, teams, hashes,
          graph_args, graph, split_graph, points>>

composeVars   == <<slot_data, init_data, detail_data, attribute_data, person>>
attributeVars == <<attr_args, attribute>>
teamVars      == <<teams, hashes>>
graphVars     == <<graph_args, graph, split_graph, points>>

---------------------------------------------------------------------------
(* Python values and call outcomes                                         *)

None      == [t |-> "NoneType"]
PyStr(s)  == [t |-> "str", v |-> s]
PyInt(n)  == [t |-> "int", v |-> n]
PyList(l) == [t |-> "list", v |-> l]

\* bool(v) for the value types above
Truthy(v) ==
    CASE v.t = "NoneType" -> FALSE
      [] v.t = "str"      -> v.v # <<>>
      [] v.t = "list"     -> v.v # <<>>
      [] v.t = "int"      -> v.v # 0

NoExc     == "none"
Return(v) == [exc |-> NoExc, val |-> v]
Raise(e)  == [exc |-> e]
Raised(r) == r.exc # NoExc

\* no constructor has been called yet
NotCalled == [exc |-> "not called"]

---------------------------------------------------------------------------
(* str operations                                                          *)

DigitVal == ("0" :> 0) @@ ("1" :> 1) @@ ("2" :> 2) @@ ("3" :> 3) @@ ("4" :> 4)
         @@ ("5" :> 5) @@ ("6" :> 6) @@ ("7" :> 7) @@ ("8" :> 8) @@ ("9" :> 9)

DigitChr == <<"0", "1", "2", "3", "4", "5", "6", "7", "8", "9">>

\* s.split(sep) for a one-character separator
RECURSIVE split(_, _)
split(s, sep) ==
    IF s = <<>> THEN << <<>> >>
    ELSE LET rest == split(Tail(s), sep)
         IN  IF Head(s) = sep
             THEN << <<>> >> \o rest
             ELSE << <<Head(s)>> \o Head(rest) >> \o Tail(rest)

RECURSIVE DigitsValue(_, _)
DigitsValue(s, acc) ==
    IF s = <<>> THEN acc ELSE DigitsValue(Tail(s), 10 * acc + DigitVal[Head(s)])

\* int(s) for a str of the handle alphabet (digits, letters, "-"): the decimal
\* value of a non-empty all-digit string, ValueError otherwise
int(s) ==
    IF s # <<>> /\ \A i \in 1..Len(s) : s[i] \in DOMAIN DigitVal
    THEN Return(DigitsValue(s, 0))
    ELSE Raise("ValueError")

\* "{0}".format(n) for an int n >= 0
RECURSIVE str(_)
str(n) ==
    IF n < 10 THEN <<DigitChr[n + 1]>>
    ELSE str(n \div 10) \o <<DigitChr[(n % 10) + 1]>>

RECURSIVE reversed(_)
reversed(s) == IF s = <<>> THEN <<>> ELSE reversed(Tail(s)) \o <<Head(s)>>

---------------------------------------------------------------------------
(* Static configuration tables of sc2reader.constants                      *)

\* gateway id -> region code
GATEWAY_LOOKUP == (0 :> <<>>) @@ (1 :> <<"u", "s">>) @@ (2 :> <<"e", "u">>)

\* race code -> localized race name
LOCALIZED_RACES == [Zerg |-> "Zerg", Protoss |-> "Protoss"]

---------------------------------------------------------------------------
(* Entity, User, Player: each __init__ assigns attributes of self in       *)
(* order; self is the instance __dict__, and f @@ self is self after the   *)
(* assignments f.                                                          *)

\* mutant: the placeholder replaces None only ("is None" instead of "or")
HandleOrPlaceholder_NoneOnly(handle) ==
    IF handle = None THEN <<"0", "-", "S", "2", "-", "0", "-", "0">>
    ELSE handle.v

\* mutant: the placeholder also replaces every handle that is not
\* <number>-<any>-<number>-<number>
HandleOrPlaceholder_Lenient(handle) ==
    IF /\ Truthy(handle)
       /\ LET parts == split(handle.v, "-")
          IN  /\ Len(parts) = 4
              /\ \A i \in {1, 3, 4} : ~Raised(int(parts[i]))
    THEN handle.v
    ELSE <<"0", "-", "S", "2", "-", "0", "-", "0">>

\* self.toon_handle or "0-S2-0-0"
HandleOrPlaceholder(handle) ==
    IF Truthy(handle) THEN handle.v
    ELSE <<"0", "-", "S", "2", "-", "0", "-", "0">>

\* mutant: the slot's zero-based team index is kept
TeamNumber_ZeroBased(slot) == slot.team_id

\* slot_data['team_id']+1
TeamNumber(slot) == slot.team_id + 1

Entity__init__(self, sid, slot) ==
    LET toon_handle == HandleOrPlaceholder(slot.toon_handle)
        parts   == split(toon_handle, "-")
        gateway == int(parts[1])
    IN  IF Raised(gateway) THEN gateway
        ELSE IF gateway.val \notin DOMAIN GATEWAY_LOOKUP THEN Raise("KeyError")
        ELSE IF Len(parts) < 3 THEN Raise("IndexError")
        ELSE IF Raised(int(parts[3])) THEN int(parts[3])
        ELSE IF Len(parts) < 4 THEN Raise("IndexError")
        ELSE IF Raised(int(parts[4])) THEN int(parts[4])
        ELSE Return(
            [ sid         |-> sid,
              slot_data   |-> slot,
              handicap    |-> slot.handicap,
              team_id     |-> TeamNumber(slot),
              is_human    |-> (slot.control = 2),
              is_observer |-> (slot.observe # 0),
              is_referee  |-> (slot.observe = 2),
              toon_handle |-> slot.toon_handle,
              region      |-> GATEWAY_LOOKUP[gateway.val],
              gateway     |-> GATEWAY_LOOKUP[gateway.val],
              subregion   |-> int(parts[3]).val,
              toon_id     |-> int(parts[4]).val,
              events      |-> <<>>,
              messages    |-> <<>> ] @@ self)

User__init__(self, uid, init) ==
    Return(
        [ uid                  |-> uid,
          init_data            |-> init,
          clan_tag             |-> init.clan_tag,
          name                 |-> init.name,
          combined_race_levels |-> init.combined_race_levels,
          highest_league       |-> init.highest_league,
          recorder             |-> None ] @@ self)

\* mutant: the default outcome is the Team default, "Unknown"
Outcome_Unknown(code) ==
    IF code = 1 THEN PyStr("Win")
    ELSE IF code = 2 THEN PyStr("Loss")
    ELSE PyStr("Unknown")

\* self.result: None unless the result code is 1 or 2
Outcome(code) ==
    IF code = 1 THEN PyStr("Win")
    ELSE IF code = 2 THEN PyStr("Loss")
    ELSE None

Player__init__(self, pid, detail, attrs) ==
    IF detail.bnet.gateway \notin DOMAIN GATEWAY_LOOKUP THEN Raise("KeyError")
    ELSE Return(
        [ pid            |-> pid,
          detail_data    |-> detail,
          attribute_data |-> attrs,
          result         |-> Outcome(detail.result),
          team           |-> None,
          pick_race      |-> IF "Race" \in DOMAIN attrs
                             THEN attrs["Race"] ELSE "Unknown",
          difficulty     |-> IF "Difficulty" \in DOMAIN attrs
                             THEN attrs["Difficulty"] ELSE "Unknown",
          play_race      |-> IF detail.race \in DOMAIN LOCALIZED_RACES
                             THEN LOCALIZED_RACES[detail.race] ELSE detail.race,
          color          |-> detail.color,
          units          |-> <<>>,
          killed_units   |-> <<>>,
          region         |-> GATEWAY_LOOKUP[detail.bnet.gateway],
          gateway        |-> GATEWAY_LOOKUP[detail.bnet.gateway],
          subregion      |-> detail.bnet.subregion,
          toon_id        |-> detail.bnet.uid ] @@ self)

\* User.url: URL_TEMPLATE.format(**self.__dict__)
url(self) ==
    <<"h", "t", "t", "p", ":", "/", "/">> \o self.region
    \o <<".", "b", "a", "t", "t", "l", "e", ".", "n", "e", "t",
         "/", "s", "c", "2", "/", "e", "n",
         "/", "p", "r", "o", "f", "i", "l", "e", "/">>
    \o str(self.toon_id) \o <<"/">> \o str(self.subregion)
    \o <<"/">> \o self.name \o <<"/">>

\* a new instance: an empty __dict__ tagged with its class
New(class) == [class |-> class]

Observer__init__(sid, slot, uid, init, pid) ==
    LET e == Entity__init__(New("Observer"), sid, slot)
    IN  IF Raised(e) THEN e
        ELSE Return([pid |-> pid] @@ User__init__(e.val, uid, init).val)

Computer__init__(sid, slot, pid, detail, attrs) ==
    LET e == Entity__init__(New("Computer"), sid, slot)
    IN  IF Raised(e) THEN e
        ELSE LET p == Player__init__(e.val, pid, detail, attrs)
             IN  IF Raised(p) THEN p
                 ELSE Return([name |-> detail.name] @@ p.val)

\* mutant: Entity.__init__ runs last, so the handle's identity fields win
Participant__init__EntityLast(sid, slot, uid, init, pid, detail, attrs) ==
    LET p == Player__init__(User__init__(New("Participant"), uid, init).val,
                            pid, detail, attrs)
    IN  IF Raised(p) THEN p ELSE Entity__init__(p.val, sid, slot)

Participant__init__(sid, slot, uid, init, pid, detail, attrs) ==
    LET e == Entity__init__(New("Participant"), sid, slot)
    IN  IF Raised(e) THEN e
        ELSE Player__init__(User__init__(e.val, uid, init).val, pid, detail, attrs)

---------------------------------------------------------------------------
(* Attribute                                                               *)

\* the characters value.strip("\x00 ") removes
NUL == "\\x00"
SP  == " "

RECURSIVE lstrip(_, _)
lstrip(s, chars) ==
    IF s # <<>> /\ Head(s) \in chars THEN lstrip(Tail(s), chars) ELSE s

RECURSIVE rstrip(_, _)
rstrip(s, chars) ==
    IF s # <<>> /\ s[Len(s)] \in chars
    THEN rstrip(SubSeq(s, 1, Len(s) - 1), chars) ELSE s

\* mutant: only the trailing characters are stripped (rstrip)
strip_TrailingOnly(s, chars) == rstrip(s, chars)

\* s.strip(chars): both ends
strip(s, chars) == lstrip(rstrip(s, chars), chars)

\* attribute id -> (name, value lookup)
LOBBY_PROPERTIES ==
    (500 :> [name |-> "Controller",
             lookup |-> (<<"H", "u">> :> "Human") @@ (<<"u">> :> "Open")])
    @@ (3001 :> [name |-> "Race",
                 lookup |-> (<<"u", "H">> :> "Terran")])

Attribute__init__(header, attr_id, player, value) ==
    IF ~(attr_id.t = "int" /\ attr_id.v \in DOMAIN LOBBY_PROPERTIES)
    THEN \* "Unknown attribute id: "+self.id
         IF attr_id.t = "str"
         THEN [exc |-> "ValueError",
               msg |-> <<"Unknown attribute id: ", attr_id.v>>]
         ELSE [exc |-> "TypeError",
               msg |-> <<"cannot concatenate 'str' and 'int' objects">>]
    ELSE LET entry == LOBBY_PROPERTIES[attr_id.v]
             key   == reversed(strip(value, {NUL, SP}))
         IN  IF key \notin DOMAIN entry.lookup THEN Raise("KeyError")
             ELSE Return([ header |-> header,
                           id     |-> attr_id,
                           player |-> player,
                           name   |-> entry.name,
                           value  |-> entry.lookup[key] ])

MaxRaw == 4

\* raw value buffers
RawValues == UNION { [1..n -> {NUL, SP, "H", "u"}] : n \in 0..MaxRaw }

\* attribute ids: two of the table, an int and a str that are not in it
AttributeIds == { PyInt(500), PyInt(3001), PyInt(9999), PyStr(<<"9", "9">>) }

InitAttribute ==
    /\ attr_args \in [header : {0}, attr_id : AttributeIds, player : {1},
                      value : RawValues]
    /\ attribute = NotCalled
    /\ slot_data = None /\ init_data = None /\ detail_data = None
    /\ attribute_data = None /\ person = [class |-> "none", out |-> NotCalled]
    /\ teams = <<>> /\ hashes = <<>>
    /\ graph_args = None /\ graph = NotCalled /\ split_graph = NotCalled
    /\ points = <<>>

NewAttribute ==
    /\ attribute = NotCalled
    /\ attribute' = Attribute__init__(attr_args.header, attr_args.attr_id,
                                      attr_args.player, attr_args.value)
    /\ UNCHANGED <<attr_args, composeVars, teamVars, graphVars>>

NextAttribute == NewAttribute

SpecAttribute == InitAttribute /\ [][NextAttribute]_vars

---------------------------------------------------------------------------
(* Composition: the arguments are drawn once; one constructor is applied   *)

MaxTeamId == 1
MaxResult == 3

\* toon_handle values: absent, empty, well formed, and malformed in each part
Handles ==
    { None, PyStr(<<>>),
      PyStr(<<"0", "-", "S", "2", "-", "0", "-", "0">>),
      PyStr(<<"1", "-", "S", "2", "-", "2", "-", "5", "5", "5">>),
      PyStr(<<"2", "-", "S", "2", "-", "1", "-", "7">>),
      PyStr(<<"1", "-", "S", "2", "-", "2">>),
      PyStr(<<"1">>),
      PyStr(<<"x", "-", "S", "2", "-", "2", "-", "5", "5", "5">>),
      PyStr(<<"1", "-", "S", "2", "-", "x", "-", "5", "5", "5">>),
      PyStr(<<"1", "-", "S", "2", "-", "2", "-", "x">>),
      PyStr(<<"1", "-", "S", "2", "-", "2", "-", "5", "5", "5", "-", "9">>),
      PyStr(<<"1", "-", "X", "X", "-", "2", "-", "5", "5", "5">>),
      PyStr(<<"7", "-", "S", "2", "-", "1", "-", "5">>),
      PyStr(<<"1", "-", "S", "2", "-", "-", "5">>),
      PyStr(<<"1", "-", "-", "2", "-", "5">>) }

Slots ==
    [ handicap : {100}, team_id : 0..MaxTeamId, control : {2, 3},
      observe : {0, 1, 2}, toon_handle : Handles ]

Accounts ==
    [ clan_tag : {<<>>}, name : {<<"A", "l">>, <<"B", "o">>},
      combined_race_levels : {0}, highest_league : {0} ]

Details ==
    [ result : 0..MaxResult, race : {"Zerg", "Terr"},
      color : {[a |-> 255, r |-> 180, g |-> 20, b |-> 30]},
      bnet : [gateway : {0, 1, 7}, unknown2 : {0}, subregion : {0, 2},
              uid : {0, 555}],
      name : {<<"A", ".", "I", ".">>} ]

Attributes == { [Race |-> "Zerg"], [Race |-> "Random", Difficulty |-> "Hard"] }

\* the outcome of the call of a class's constructor
Called(class, outcome) == [class |-> class, out |-> outcome]

InitCompose ==
    /\ slot_data \in Slots
    /\ init_data \in Accounts
    /\ detail_data \in Details
    /\ attribute_data \in Attributes
    /\ person = Called("none", NotCalled)
    /\ attr_args = None /\ attribute = NotCalled
    /\ teams = <<>> /\ hashes = <<>>
    /\ graph_args = None /\ graph = NotCalled /\ split_graph = NotCalled
    /\ points = <<>>

\* class(...) on the drawn arguments, with slot, user and player id 0
Construct(class, slot, init, detail, attrs) ==
    CASE class = "Entity"      -> Entity__init__(New("Entity"), 0, slot)
      [] class = "Observer"    -> Observer__init__(0, slot, 0, init, 0)
      [] class = "Computer"    -> Computer__init__(0, slot, 0, detail, attrs)
      [] class = "Participant" -> Participant__init__(0, slot, 0, init, 0,
                                                      detail, attrs)

NewEntity ==
    /\ person.class = "none"
    /\ person' = Called("Entity",
                        Construct("Entity", slot_data, init_data, detail_data,
                                  attribute_data))
    /\ UNCHANGED <<slot_data, init_data, detail_data, attribute_data>>
    /\ UNCHANGED <<attributeVars, teamVars, graphVars>>

NewObserver ==
    /\ person.class = "none"
    /\ person' = Called("Observer",
                        Construct("Observer", slot_data, init_data, detail_data,
                                  attribute_data))
    /\ UNCHANGED <<slot_data, init_data, detail_data, attribute_data>>
    /\ UNCHANGED <<attributeVars, teamVars, graphVars>>

NewComputer ==
    /\ person.class = "none"
    /\ person' = Called("Computer",
                        Construct("Computer", slot_data, init_data, detail_data,
                                  attribute_data))
    /\ UNCHANGED <<slot_data, init_data, detail_data, attribute_data>>
    /\ UNCHANGED <<attributeVars, teamVars, graphVars>>

NewParticipant ==
    /\ person.class = "none"
    /\ person' = Called("Participant",
                        Construct("Participant", slot_data, init_data,
                                  detail_data, attribute_data))
    /\ UNCHANGED <<slot_data, init_data, detail_data, attribute_data>>
    /\ UNCHANGED <<attributeVars, teamVars, graphVars>>

NextCompose == NewEntity \/ NewObserver \/ NewComputer \/ NewParticipant

SpecCompose == InitCompose /\ [][NextCompose]_vars

---------------------------------------------------------------------------
(* Team                                                                    *)

\* ord(c) of the characters of profile URLs and of ","
ord == ("," :> 44) @@ ("." :> 46) @@ ("/" :> 47) @@ ("0" :> 48) @@ ("1" :> 49)
    @@ ("2" :> 50) @@ ("3" :> 51) @@ ("4" :> 52) @@ ("5" :> 53) @@ ("6" :> 54)
    @@ ("7" :> 55) @@ ("8" :> 56) @@ ("9" :> 57) @@ (":" :> 58) @@ ("A" :> 65)
    @@ ("B" :> 66) @@ ("a" :> 97) @@ ("b" :> 98) @@ ("c" :> 99) @@ ("e" :> 101)
    @@ ("f" :> 102) @@ ("h" :> 104) @@ ("i" :> 105) @@ ("l" :> 108)
    @@ ("n" :> 110) @@ ("o" :> 111) @@ ("p" :> 112) @@ ("r" :> 114)
    @@ ("s" :> 115) @@ ("t" :> 116) @@ ("u" :> 117)

\* a < b for two str: the first differing character decides, a proper prefix
\* is smaller
RECURSIVE StrLess(_, _)
StrLess(a, b) ==
    IF b = <<>> THEN FALSE
    ELSE IF a = <<>> THEN TRUE
    ELSE IF Head(a) # Head(b) THEN ord[Head(a)] < ord[Head(b)]
    ELSE StrLess(Tail(a), Tail(b))

\* l with x inserted before the first element greater than x
RECURSIVE Insert(_, _)
Insert(x, l) ==
    IF l = <<>> THEN <<x>>
    ELSE IF StrLess(x, Head(l)) THEN <<x>> \o l
    ELSE <<Head(l)>> \o Insert(x, Tail(l))

\* mutant: the urls are joined in the order of the player list
sorted_Unsorted(l) == l

\* sorted(l) for a list of str
RECURSIVE sorted(_)
sorted(l) ==
    IF l = <<>> THEN <<>>
    ELSE Insert(l[Len(l)], sorted(SubSeq(l, 1, Len(l) - 1)))

\* sep.join(l)
RECURSIVE join(_, _)
join(sep, l) ==
    IF l = <<>> THEN <<>>
    ELSE IF Len(l) = 1 THEN l[1]
    ELSE l[1] \o sep \o join(sep, Tail(l))

\* hashlib.sha256(data).hexdigest(): a digest is determined by, and stands
\* for, the data it was computed from
sha256_hexdigest(data) == [alg |-> "sha256", of |-> data]

Team__init__(number) ==
    [number |-> number, players |-> <<>>, result |-> "Unknown"]

\* p.url: only a User (Observer, Participant) has the property
HasUrl(p) == p.class \in {"Observer", "Participant"}

\* Team.hash
hash(self) ==
    IF \E i \in 1..Len(self.players) : ~HasUrl(self.players[i])
    THEN Raise("AttributeError")
    ELSE Return(sha256_hexdigest(
             join(<<",">>,
                  sorted([i \in 1..Len(self.players) |->
                              url(self.players[i])]))))

MaxTeam  == 2
MaxEvals == 2

PoolSlot(handle) ==
    [handicap |-> 100, team_id |-> 0, control |-> 2, observe |-> 0,
     toon_handle |-> handle]

PoolAccount(name) ==
    [clan_tag |-> <<>>, name |-> name, combined_race_levels |-> 0,
     highest_league |-> 0]

PoolDetail(subregion, uid) ==
    [result |-> 1, race |-> "Zerg",
     color |-> [a |-> 255, r |-> 180, g |-> 20, b |-> 30],
     bnet |-> [gateway |-> 1, unknown2 |-> 0, subregion |-> subregion,
               uid |-> uid],
     name |-> <<"A", ".", "I", ".">>]

\* the players a team is filled from: three participants whose urls sort
\* differently from their account ids, and a computer
Pool ==
    { Participant__init__(0, PoolSlot(None), 0, PoolAccount(<<"A", "l">>), 0,
                          PoolDetail(2, 555), [Race |-> "Zerg"]).val,
      Participant__init__(1, PoolSlot(None), 1, PoolAccount(<<"B", "o">>), 1,
                          PoolDetail(1, 9), [Race |-> "Zerg"]).val,
      Participant__init__(2, PoolSlot(None), 2, PoolAccount(<<"A", "l">>), 2,
                          PoolDetail(1, 10), [Race |-> "Zerg"]).val,
      Computer__init__(3, PoolSlot(None), 3, PoolDetail(0, 0),
                       [Race |-> "Zerg"]).val }

InitTeam ==
    /\ teams = [t \in {1, 2} |-> Team__init__(t)]
    /\ hashes = [t \in {1, 2} |-> <<>>]
    /\ slot_data = None /\ init_data = None /\ detail_data = None
    /\ attribute_data = None /\ person = [class |-> "none", out |-> NotCalled]
    /\ attr_args = None /\ attribute = NotCalled
    /\ graph_args = None /\ graph = NotCalled /\ split_graph = NotCalled
    /\ points = <<>>

\* team.players.append(p)
AddPlayer(t, p) ==
    /\ Len(teams[t].players) < MaxTeam
    /\ teams' = [teams EXCEPT ![t].players = Append(@, p)]
    /\ hashes' = [hashes EXCEPT ![t] = <<>>]
    /\ UNCHANGED <<composeVars, attributeVars, graphVars>>

\* team.hash is read
ReadHash(t) ==
    /\ Len(hashes[t]) < MaxEvals
    /\ hashes' = [hashes EXCEPT ![t] = Append(@, hash(teams[t]))]
    /\ UNCHANGED <<teams, composeVars, attributeVars, graphVars>>

NextTeam ==
    \/ \E t \in {1, 2}, p \in Pool : AddPlayer(t, p)
    \/ \E t \in {1, 2} : ReadHash(t)

SpecTeam == InitTeam /\ [][NextTeam]_vars

---------------------------------------------------------------------------
(* Graph                                                                   *)

\* mutant: the else is missing, x and y are always stored
Graph__init__NoElse(x, y, xy_list) == Return([times |-> x, values |-> y])

Graph__init__(x, y, xy_list) ==
    IF Truthy(xy_list)
    THEN Return([ times  |-> PyList([i \in 1..Len(xy_list.v) |-> xy_list.v[i][1]]),
                  values |-> PyList([i \in 1..Len(xy_list.v) |-> xy_list.v[i][2]]) ])
    ELSE Return([times |-> x, values |-> y])

Min(a, b) == IF a < b THEN a ELSE b

\* zip(self.times, self.values): TypeError unless both are sequences, else
\* the pairs up to the shorter one's length
as_points(self) ==
    IF self.times.t # "list" \/ self.values.t # "list" THEN Raise("TypeError")
    ELSE Return(PyList([i \in 1..Min(Len(self.times.v), Len(self.values.v)) |->
                            <<self.times.v[i], self.values.v[i]>>]))

MaxLen   == 2
MaxCalls == 2

SeqsUpTo(S, n) == UNION { [1..k -> S] : k \in 0..n }

\* (time, value) samples
Samples == { <<0, 10>>, <<5, 20>>, <<5, 10>> }

InitGraph ==
    /\ graph_args \in
           [ x : {None} \cup { PyList(l) : l \in SeqsUpTo({0, 5}, MaxLen) },
             y : {None} \cup { PyList(l) : l \in SeqsUpTo({10, 20}, MaxLen) },
             xy_list : {None} \cup { PyList(l) : l \in SeqsUpTo(Samples, MaxLen) } ]
    /\ graph = NotCalled
    /\ split_graph = NotCalled
    /\ points = [from_samples |-> <<>>, from_parallel |-> <<>>]
    /\ slot_data = None /\ init_data = None /\ detail_data = None
    /\ attribute_data = None /\ person = [class |-> "none", out |-> NotCalled]
    /\ attr_args = None /\ attribute = NotCalled
    /\ teams = <<>> /\ hashes = <<>>

\* Graph(x, y, xy_list)
NewGraph ==
    /\ graph = NotCalled
    /\ graph' = Graph__init__(graph_args.x, graph_args.y, graph_args.xy_list)
    /\ UNCHANGED <<graph_args, split_graph, points>>
    /\ UNCHANGED <<composeVars, attributeVars, teamVars>>

\* Graph(times, values) on the times and the values of the samples of xy_list
NewSplitGraph ==
    /\ split_graph = NotCalled
    /\ graph_args.xy_list # None
    /\ LET pairs == graph_args.xy_list.v
       IN  split_graph' =
               Graph__init__(PyList([i \in 1..Len(pairs) |-> pairs[i][1]]),
                             PyList([i \in 1..Len(pairs) |-> pairs[i][2]]),
                             None)
    /\ UNCHANGED <<graph_args, graph, points>>
    /\ UNCHANGED <<composeVars, attributeVars, teamVars>>

\* graph.as_points()
AsPoints ==
    /\ graph # NotCalled
    /\ Len(points.from_samples) < MaxCalls
    /\ points' = [points EXCEPT !.from_samples = Append(@, as_points(graph.val))]
    /\ UNCHANGED <<graph_args, graph, split_graph>>
    /\ UNCHANGED <<composeVars, attributeVars, teamVars>>

\* split_graph.as_points()
SplitAsPoints ==
    /\ split_graph # NotCalled
    /\ Len(points.from_parallel) < MaxCalls
    /\ points' = [points EXCEPT
                      !.from_parallel = Append(@, as_points(split_graph.val))]
    /\ UNCHANGED <<graph_args, graph, split_graph>>
    /\ UNCHANGED <<composeVars, attributeVars, teamVars>>

NextGraph == NewGraph \/ NewSplitGraph \/ AsPoints \/ SplitAsPoints

SpecGraph == InitGraph /\ [][NextGraph]_vars

---------------------------------------------------------------------------
(* Properties of composition, checked under SpecCompose                    *)

\* the constructor of class c was called and returned
Built(c) == person.class = c /\ ~Raised(person.out)

\* sub occurs in s
Contains(s, sub) ==
    \E i \in 0..(Len(s) - Len(sub)) : SubSeq(s, i + 1, i + Len(sub)) = sub

Placeholder == PyStr(<<"0", "-", "S", "2", "-", "0", "-", "0">>)
Handle555   == PyStr(<<"1", "-", "S", "2", "-", "2", "-", "5", "5", "5">>)

\* the hyphen-separated parts of a non-empty handle
Parts(handle) == split(handle.v, "-")

IsNumber(part) == part # <<>> /\ \A i \in 1..Len(part) : part[i] \in DOMAIN DigitVal

\* the handle has exactly 4 hyphen-separated parts, the gateway, subregion and
\* account id numeric
WellFormed(handle) ==
    /\ handle.t = "str"
    /\ Len(Parts(handle)) = 4
    /\ \A i \in {1, 3, 4} : IsNumber(Parts(handle)[i])

\* C1 as stated: a composed Participant's `team` equals slot.team_id + 1.
C1_Original ==
    Built("Participant") =>
        person.out.val.team = PyInt(slot_data.team_id + 1)

\* C1 amended: a composed Participant's `team_id` equals slot.team_id + 1,
\* and its `team` (the reference to its Team object) is None.
C1_Amended ==
    Built("Participant") =>
        /\ person.out.val.team_id = slot_data.team_id + 1
        /\ person.out.val.team = None

C1_Witness ==
    /\ Built("Participant")
    /\ slot_data.team_id = 1
    /\ person.out.val.team_id = 2
    /\ person.out.val.team = None

\* C3 as stated: the outcome of a participant built with a detail record is
\* Win for result code 1, Loss for 2 and Unknown for every other code.
C3_Original ==
    (Built("Participant") \/ Built("Computer")) =>
        /\ detail_data.result = 1 => person.out.val.result = PyStr("Win")
        /\ detail_data.result = 2 => person.out.val.result = PyStr("Loss")
        /\ detail_data.result \notin {1, 2} =>
               person.out.val.result = PyStr("Unknown")

\* C3 amended: the outcome is Win for result code 1, Loss for 2 and None (no
\* outcome string) for every other code.
C3_Amended ==
    (Built("Participant") \/ Built("Computer")) =>
        /\ detail_data.result = 1 => person.out.val.result = PyStr("Win")
        /\ detail_data.result = 2 => person.out.val.result = PyStr("Loss")
        /\ detail_data.result \notin {1, 2} => person.out.val.result = None

C3_Witness ==
    /\ Built("Participant")
    /\ detail_data.result = 3
    /\ person.out.val.result = None

\* C4 as stated: a composed Participant's region, subregion and account id,
\* and so its profile URL, are those parsed from the slot's handle; handle
\* "1-S2-2-555" yields a URL containing "555" whatever the detail record holds.
C4_Original ==
    Built("Participant") =>
        LET parts == split(HandleOrPlaceholder(slot_data.toon_handle), "-")
        IN  /\ person.out.val.region = GATEWAY_LOOKUP[int(parts[1]).val]
            /\ person.out.val.subregion = int(parts[3]).val
            /\ person.out.val.toon_id = int(parts[4]).val
            /\ slot_data.toon_handle = Handle555 =>
                   Contains(url(person.out.val), <<"5", "5", "5">>)

\* C4 amended: a composed Participant's region, subregion and account id, and
\* so its profile URL, are those of the detail record's Battle.net identity
\* tuple, whatever the slot's handle is; the handle itself is kept unparsed
\* in toon_handle.
C4_Amended ==
    Built("Participant") =>
        /\ person.out.val.region = GATEWAY_LOOKUP[detail_data.bnet.gateway]
        /\ person.out.val.subregion = detail_data.bnet.subregion
        /\ person.out.val.toon_id = detail_data.bnet.uid
        /\ person.out.val.toon_handle = slot_data.toon_handle
        /\ Contains(url(person.out.val),
                    <<"/">> \o str(detail_data.bnet.uid) \o <<"/">>
                    \o str(detail_data.bnet.subregion) \o <<"/">>
                    \o init_data.name \o <<"/">>)
        /\ (detail_data.bnet = [gateway |-> 1, unknown2 |-> 0,
                                subregion |-> 0, uid |-> 0]
            /\ init_data.name = <<"A", "l">>) =>
               url(person.out.val) =
                   <<"h", "t", "t", "p", ":", "/", "/", "u", "s", ".",
                     "b", "a", "t", "t", "l", "e", ".", "n", "e", "t", "/",
                     "s", "c", "2", "/", "e", "n", "/",
                     "p", "r", "o", "f", "i", "l", "e", "/",
                     "0", "/", "0", "/", "A", "l", "/">>

C4_Witness ==
    /\ Built("Participant")
    /\ slot_data.toon_handle = Handle555
    /\ detail_data.bnet.uid = 0
    /\ ~Contains(url(person.out.val), <<"5", "5", "5">>)

\* C6 as stated: a handle that is not 4 hyphen-separated parts with numeric
\* gateway, subregion and account id is never an error: Entity construction
\* completes with the identity of the placeholder "0-S2-0-0".
C6_Original ==
    (person.class = "Entity" /\ ~WellFormed(slot_data.toon_handle)) =>
        /\ ~Raised(person.out)
        /\ person.out.val.region = GATEWAY_LOOKUP[0]
        /\ person.out.val.subregion = 0
        /\ person.out.val.toon_id = 0

\* C6 amended: only an absent or empty handle is normalized to "0-S2-0-0".
\* A non-empty handle is parsed as given: construction raises ValueError when
\* the first, third or fourth part is not a number, IndexError when there are
\* fewer than 4 parts and KeyError when the gateway id is not in the gateway
\* table; otherwise it completes with the identity read from those parts
\* (the second part and any part after the fourth are ignored).
C6_Amended ==
    person.class = "Entity" =>
        IF ~Truthy(slot_data.toon_handle)
        THEN /\ ~Raised(person.out)
             /\ person.out.val.region = GATEWAY_LOOKUP[0]
             /\ person.out.val.subregion = 0
             /\ person.out.val.toon_id = 0
        ELSE LET parts   == Parts(slot_data.toon_handle)
                 numeric(i) == i <= Len(parts) /\ IsNumber(parts[i])
                 nonnum(i)  == i <= Len(parts) /\ ~IsNumber(parts[i])
                 known   == DigitsValue(parts[1], 0) \in DOMAIN GATEWAY_LOOKUP
             IN  /\ Raised(person.out) <=>
                        \/ Len(parts) < 4
                        \/ \E i \in {1, 3, 4} : nonnum(i)
                        \/ numeric(1) /\ ~known
                 /\ Raised(person.out) =>
                        person.out.exc \in {"ValueError", "IndexError", "KeyError"}
                 /\ person.out.exc = "ValueError" =>
                        \E i \in {1, 3, 4} : nonnum(i)
                 /\ person.out.exc = "IndexError" => Len(parts) < 4
                 /\ person.out.exc = "KeyError" => numeric(1) /\ ~known
                 /\ ~Raised(person.out) =>
                        /\ person.out.val.region =
                               GATEWAY_LOOKUP[DigitsValue(parts[1], 0)]
                        /\ person.out.val.subregion = DigitsValue(parts[3], 0)
                        /\ person.out.val.toon_id = DigitsValue(parts[4], 0)
                        /\ person.out.val.toon_handle = slot_data.toon_handle

C6_Witness ==
    /\ person.class = "Entity"
    /\ slot_data.toon_handle = PyStr(<<"1", "-", "S", "2", "-", "2">>)
    /\ person.out.exc = "IndexError"

\* C7: an empty or absent handle yields the region, subregion and account id
\* of the handle "0-S2-0-0": the region of gateway id 0, subregion 0 and
\* account id 0.  For every class, the constructor's outcome on an empty or
\* absent handle has the identity it has on "0-S2-0-0", the other arguments
\* being the same.
C7_EmptyHandleIsPlaceholder ==
    /\ (/\ person.class \in {"Entity", "Observer"}
        /\ slot_data.toon_handle \in {None, PyStr(<<>>), Placeholder}) =>
           /\ ~Raised(person.out)
           /\ person.out.val.region = GATEWAY_LOOKUP[0]
           /\ person.out.val.subregion = 0
           /\ person.out.val.toon_id = 0
    /\ (/\ person.class # "none"
        /\ slot_data.toon_handle \in {None, PyStr(<<>>)}) =>
           LET other == Construct(person.class,
                                  [slot_data EXCEPT !.toon_handle = Placeholder],
                                  init_data, detail_data, attribute_data)
           IN  /\ person.out.exc = other.exc
               /\ ~Raised(other) =>
                      /\ person.out.val.region = other.val.region
                      /\ person.out.val.subregion = other.val.subregion
                      /\ person.out.val.toon_id = other.val.toon_id

C7_Witness ==
    /\ Built("Observer")
    /\ slot_data.toon_handle = PyStr(<<>>)
    /\ person.out.val.region = GATEWAY_LOOKUP[0]
    /\ person.out.val.toon_id = 0

---------------------------------------------------------------------------
(* Properties of Attribute, checked under SpecAttribute                    *)

\* the id is a key of the master attribute table
KnownId(attr_id) == attr_id.t = "int" /\ attr_id.v \in DOMAIN LOBBY_PROPERTIES

\* C2 as stated: for an attribute id that is not in LOBBY_PROPERTIES,
\* construction fails with the unknown-attribute error (the ValueError of
\* line 71) whose message identifies the id, and yields no name or value.
C2_Original ==
    (attribute # NotCalled /\ ~KnownId(attr_args.attr_id)) =>
        /\ attribute.exc = "ValueError"
        /\ attribute.msg = <<"Unknown attribute id: ", attr_args.attr_id.v>>

\* the int id 9999 is not in the table and construction ends in the TypeError
\* of the str + int concatenation
C2_Witness ==
    /\ attr_args.attr_id = PyInt(9999)
    /\ attribute # NotCalled
    /\ attribute.exc = "TypeError"

Pad == {NUL, SP}

\* raw without its trailing padding: the shortest prefix followed by padding
\* only
TrailingStripped(raw) ==
    LET n == CHOOSE k \in 0..Len(raw) :
                 /\ \A i \in (k + 1)..Len(raw) : raw[i] \in Pad
                 /\ k > 0 => raw[k] \notin Pad
    IN  SubSeq(raw, 1, n)

\* raw without its leading padding
LeadingStripped(raw) ==
    LET n == CHOOSE k \in 1..(Len(raw) + 1) :
                 /\ \A i \in 1..(k - 1) : raw[i] \in Pad
                 /\ k <= Len(raw) => raw[k] \notin Pad
    IN  SubSeq(raw, n, Len(raw))

Mirror(s) == [i \in 1..Len(s) |-> s[Len(s) + 1 - i]]

\* C10 as stated: for a known id the value is the lookup table's entry for
\* the raw buffer without its trailing padding, reversed; leading nulls and
\* spaces stay in the key.
C10_Original ==
    (attribute # NotCalled /\ KnownId(attr_args.attr_id)) =>
        LET lookup == LOBBY_PROPERTIES[attr_args.attr_id.v].lookup
            key    == Mirror(TrailingStripped(attr_args.value))
        IN  IF key \in DOMAIN lookup
            THEN ~Raised(attribute) /\ attribute.val.value = lookup[key]
            ELSE Raised(attribute)

\* C10 amended: for a known id the value is the lookup table's entry for the
\* raw buffer without its leading and its trailing null/space padding,
\* reversed; when the table has no such key, construction raises KeyError.
C10_Amended ==
    (attribute # NotCalled /\ KnownId(attr_args.attr_id)) =>
        LET entry == LOBBY_PROPERTIES[attr_args.attr_id.v]
            key   == Mirror(LeadingStripped(TrailingStripped(attr_args.value)))
        IN  IF key \in DOMAIN entry.lookup
            THEN /\ ~Raised(attribute)
                 /\ attribute.val.name = entry.name
                 /\ attribute.val.value = entry.lookup[key]
            ELSE attribute.exc = "KeyError"

\* a buffer with leading padding decodes to the entry of its content
C10_Witness ==
    /\ attr_args.attr_id = PyInt(500)
    /\ attr_args.value = <<NUL, SP, "u", "H">>
    /\ ~Raised(attribute)
    /\ attribute.val.value = "Human"

---------------------------------------------------------------------------
(* Properties of Team, checked under SpecTeam                              *)

\* the two player lists hold the same players, each as often
SameMembers(a, b) ==
    /\ Len(a) = Len(b)
    /\ \A p \in Pool :
           Cardinality({i \in 1..Len(a) : a[i] = p})
               = Cardinality({i \in 1..Len(b) : b[i] = p})

\* the two player lists hold the same profile urls, each as often
SameUrls(a, b) ==
    /\ Len(a) = Len(b)
    /\ \A i \in 1..Len(a) : HasUrl(a[i])
    /\ \A i \in 1..Len(b) : HasUrl(b[i])
    /\ \A p \in {q \in Pool : HasUrl(q)} :
           Cardinality({i \in 1..Len(a) : url(a[i]) = url(p)})
               = Cardinality({i \in 1..Len(b) : url(b[i]) = url(p)})

\* C5: Team.hash depends only on the collection of the members' profile
\* urls: every read of a team's hash since its last append gives the same
\* outcome, and two teams whose player lists hold the same members (or the
\* same urls), in whatever order they were appended, give the same outcome.
C5_HashOrderIndependent ==
    /\ \A t \in {1, 2} : \A i \in 1..Len(hashes[t]) :
           hashes[t][i] = hashes[t][1]
    /\ (/\ hashes[1] # <<>> /\ hashes[2] # <<>>
        /\ \/ SameMembers(teams[1].players, teams[2].players)
           \/ SameUrls(teams[1].players, teams[2].players)) =>
           hashes[1][1] = hashes[2][1]

\* two teams with the same two participants appended in opposite orders, the
\* hash of one read twice, the digests equal
C5_Witness ==
    /\ Len(teams[1].players) = 2
    /\ teams[1].players[1] # teams[1].players[2]
    /\ teams[2].players = <<teams[1].players[2], teams[1].players[1]>>
    /\ Len(hashes[1]) = 2 /\ Len(hashes[2]) = 1
    /\ ~Raised(hashes[1][1])
    /\ hashes[1][2] = hashes[2][1]

---------------------------------------------------------------------------
(* Properties of Graph, checked under SpecGraph                            *)

\* C8 as stated: for every sequence of pairs, the empty one included, the
\* graph built from the pairs and the graph built from the pre-split times
\* and values have equal times and values, and every as_points() call on
\* either returns the pairs in order.
C8_Original ==
    graph_args.xy_list # None =>
        /\ (graph # NotCalled /\ split_graph # NotCalled) =>
               /\ graph.val.times = split_graph.val.times
               /\ graph.val.values = split_graph.val.values
        /\ \A i \in 1..Len(points.from_samples) :
               points.from_samples[i] = Return(graph_args.xy_list)
        /\ \A i \in 1..Len(points.from_parallel) :
               points.from_parallel[i] = Return(graph_args.xy_list)

\* the empty pair list with x = y = None: times is None, as_points() raises
C8_Witness ==
    /\ graph_args.xy_list = PyList(<<>>)
    /\ graph_args.x = None
    /\ graph # NotCalled /\ graph.val.times = None
    /\ split_graph # NotCalled /\ split_graph.val.times = PyList(<<>>)
    /\ points.from_samples # <<>>
    /\ points.from_samples[1].exc = "TypeError"

\* C9 as stated: in every constructed Graph, whatever the construction path
\* and the arguments, times and values have equal length.
C9_Original ==
    (graph # NotCalled
     /\ graph.val.times.t = "list" /\ graph.val.values.t = "list") =>
        Len(graph.val.times.v) = Len(graph.val.values.v)

\* C9 amended: a Graph built from a non-empty pair sequence has one time and
\* one value per pair, so times and values have the pairs' length; built
\* without one (xy_list absent or empty) it holds the x and y arguments as
\* given, so times and values have equal length exactly when x and y have.
C9_Amended ==
    graph # NotCalled =>
        IF graph_args.xy_list # None /\ graph_args.xy_list.v # <<>>
        THEN /\ graph.val.times.t = "list" /\ graph.val.values.t = "list"
             /\ Len(graph.val.times.v) = Len(graph_args.xy_list.v)
             /\ Len(graph.val.values.v) = Len(graph_args.xy_list.v)
        ELSE /\ graph.val.times = graph_args.x
             /\ graph.val.values = graph_args.y

\* x of two times and y of one value, stored as given
C9_Witness ==
    /\ graph # NotCalled
    /\ graph_args.xy_list = None
    /\ graph_args.x = PyList(<<0, 5>>)
    /\ graph_args.y = PyList(<<10>>)
    /\ Len(graph.val.times.v) = 2
    /\ Len(graph.val.values.v) = 1

===========================================================================
